---- MODULE Spec2Model ----
(***************************************************************************)
(* A model of gimslib-rs: the frame ring (frame_data.rs), the growable     *)
(* GPU buffer (vector_constant_buffer.rs) and the frame loop of            *)
(* RunningState::draw with the overlay renderer, the texture cache and     *)
(* the GPU queue as the one concurrent actor (running_state/*.rs).         *)
(*                                                                         *)
(* These specifications share the module:                                  *)
(*   SpecRing  FrameData alone: construction and increment_frame           *)
(*   SpecPool  FrameData::try_from_fn with a failing initializer           *)
(*   SpecVCB   VectorConstantBuffer alone: new and upload_deferred_delete  *)
(*   SpecPitch the sizes TextureManager::set computes for one upload       *)
(*   SpecTex   apply_texture_delta alone, on any cache and any delta       *)
(*   Spec      RunningState::draw step by step, interleaved with the GPU   *)
(*   SpecFail  Spec with every fallible call of draw able to fail          *)
(*   SpecScenario  five frames without UI geometry on a ring of one slot   *)
(*   SpecLive  frames without end under fair GPU and CPU execution         *)
(*   SpecEvent SpecScenario with RunningState::event between the draws     *)
(*   SpecRunner  the AppRunner's callbacks: resumed and window_event       *)
(***************************************************************************)
EXTENDS Integers, Sequences, FiniteSets, TLC

\* ------------------------------------------------------------------ bounds
MaxFrameCount == 2      \* ring sizes explored by Spec: 1..MaxFrameCount
MaxRingSize == 4        \* ring sizes explored by SpecRing: 1..MaxRingSize
MaxAdvances == 30       \* increment_frame calls counted in SpecRing
MaxLen == 3             \* element counts of a buffer: 0..MaxLen
MaxUploads == 3         \* upload calls on one buffer in SpecVCB
MaxTex == 2             \* managed texture ids the UI allocates: 0..MaxTex-1
MaxPrims == 1           \* primitives the UI emits in one frame: 0..MaxPrims
MaxWidth == 130         \* texture widths of an upload: 0..MaxWidth
MaxHeight == 2          \* texture heights of an upload: 1..MaxHeight
ScenarioFrames == 5     \* frames drawn by SpecScenario
MaxSide == 2            \* window widths and heights in pixels: 1..MaxSide
MaxCalls == 5           \* callbacks the event loop makes into the AppRunner

\* -------------------------------------------------------- program constants
BufferCount == 3        \* Swapchain::new(.., 3): back buffers of the swapchain
D3D12_TEXTURE_DATA_PITCH_ALIGNMENT == 256

VARIABLES
    \* FrameData (frame_data.rs)
    frame_count,        \* frame_datas.len()
    current_frame,      \* current_frame: Cell<usize>
    advances,           \* number of increment_frame calls so far (SpecRing)
    \* VectorConstantBuffer (vector_constant_buffer.rs)
    vcb,                \* the buffer: [resource, max_size, current_len]
    res_cap,            \* element capacity of every resource created, by id
    vcb_initial,        \* the initial_size the buffer was constructed with
    vcb_call,           \* the last upload_deferred_delete call and its result
    vcb_uploads,        \* number of upload calls so far
    vcb_reallocs,       \* number of resources created by upload calls so far
    vcb_max_ok,         \* largest data.len() of a successful upload so far
    \* RunningState::draw (running_state/mod.rs)
    pc,                 \* position of the CPU thread inside draw, "idle" between draws
    cmd_list,           \* per slot: command_list (+ allocator): [open, cmds]
    fence,              \* per slot: value of the slot's ID3D12Fence
    event,              \* per slot: the auto-reset Event is signaled
    armed,              \* per slot: SetEventOnCompletion(1, event) is pending
    free_list,          \* per slot: free_list: Vec<TextureId>
    \* Swapchain (swapchain.rs)
    back_buffer_index,  \* GetCurrentBackBufferIndex()
    rt_state,           \* per back buffer: resource state on the GPU timeline
    \* EguiRenderer (running_state/egui_renderer.rs)
    textures_delta,     \* textures_delta: [set, free]
    meshes,             \* meshes: Vec<EguiMesh>
    draw_count,         \* draw_count
    \* TextureManager (running_state/texture_manager.rs)
    textures,           \* textures: managed id -> resource (0: no entry)
    tex_state,          \* per texture resource created: its resource state
    tm_fence,           \* value of the texture manager's fence
    tm_list,            \* the texture manager's command list is open (recording)
    tm_i,               \* set(): position in the filtered delta list
    tm_new,             \* set(): new_resource of the current iteration
    \* the UI toolkit's texture allocator (egui, the environment)
    ui_live,            \* managed ids allocated and not yet freed
    ui_next,            \* next managed id to allocate (ids are not reused)
    \* the GPU
    queue,              \* the command queue: items not yet completed, in order
    \* the frame in progress (running_state/mod.rs, lib.rs)
    prims,              \* record(): the primitives tessellated for this frame
    ui_calls,           \* app.record_ui calls made by the draw in progress
    redraw_requested,   \* a RedrawRequested event is pending for the window
    \* FrameData::try_from_fn (frame_data.rs)
    pool,               \* one construction: [n, fails, calls, slots, result]
    \* TextureManager::set, the sizes of one upload (texture_manager.rs)
    tex_upload,         \* [width, height, done, row_pitch, buffer_size, copy_pitch]
    \* the window and what Swapchain::new computed from it (swapchain.rs)
    window,             \* [inner_size, buffers, viewport, scissor], sizes as <<w, h>>
    \* AppRunner (lib.rs)
    runner              \* [app_creator, running_state, creator_calls, sets, draws,
                        \*  events, ignored, failed, calls, exit, exited]

ringVars == <<frame_count, current_frame, advances>>
vcbVars == <<vcb, res_cap, vcb_initial, vcb_call, vcb_uploads, vcb_reallocs, vcb_max_ok>>
drawVars == <<pc, cmd_list, fence, event, armed, free_list>>
swapVars == <<back_buffer_index, rt_state>>
eguiVars == <<textures_delta, meshes, draw_count>>
tmVars == <<textures, tex_state, tm_fence, tm_list, tm_i, tm_new>>
uiVars == <<ui_live, ui_next>>
frameVars == <<prims, ui_calls, redraw_requested>>
sideVars == <<pool, tex_upload, window, runner>>
mainVars == <<drawVars, swapVars, eguiVars, tmVars, uiVars, queue, frameVars>>
vars == <<ringVars, vcbVars, mainVars, sideVars>>

\* ================================================================ FrameData

\* FrameData::try_from_fn / new / from_fn: current_frame starts at 0.
FrameDataNew(n) ==
    /\ frame_count = n
    /\ current_frame = 0

CollectKeepsGoing(i, fails) == "running"

\* collect::<Result<_, _>>() on (0..frame_count).map(init_fn): the item made
\* for index i either goes on into the Vec or, being an Err, ends the
\* iteration.
CollectItem(i, fails) == IF i \in fails THEN "err" ELSE "running"

\* try_from_fn, one pull of the iterator: init_fn is called for the next index
\* of the range; on Err the `?` returns it and the Vec built so far is dropped.
TryFromFnCall ==
    /\ pool.result = "running"
    /\ Len(pool.calls) < pool.n
    /\ LET i == Len(pool.calls)
           r == CollectItem(i, pool.fails)
       IN  pool' = [pool EXCEPT !.calls = Append(@, i),
                                !.slots = IF r = "err" THEN <<>> ELSE Append(@, i),
                                !.result = r]
    /\ UNCHANGED <<ringVars, vcbVars, mainVars, tex_upload, window, runner>>

\* try_from_fn, the range is exhausted: Ok(FrameData { current_frame: 0,
\* frame_datas }).
TryFromFnOk ==
    /\ pool.result = "running"
    /\ Len(pool.calls) = pool.n
    /\ pool' = [pool EXCEPT !.result = "ok"]
    /\ frame_count' = Len(pool.slots)
    /\ current_frame' = 0
    /\ UNCHANGED <<advances, vcbVars, mainVars, tex_upload, window, runner>>

IncrementNoWrap(cur, n) == cur + 1

\* FrameData::increment_frame: (current_frame + 1) % frame_datas.len()
increment_frame(cur, n) == (cur + 1) % n

\* FrameData::get_current: the index used for frame_datas[..]
get_current == current_frame

RingIdle ==
    /\ frame_count = 1
    /\ current_frame = 0
    /\ advances = 0

RingIncrement ==
    /\ advances < MaxAdvances
    /\ current_frame' = increment_frame(current_frame, frame_count)
    /\ advances' = advances + 1
    /\ UNCHANGED <<frame_count, vcbVars, mainVars, sideVars>>

\* ===================================================== VectorConstantBuffer

NoCall == [op |-> "none", len |-> 0, result |-> "none", deleted |-> 0,
           resource_before |-> 0, cap_before |-> 0, max_ok_before |-> 0]

\* create_resource: a resource of `count` elements; its id is the next free one.
CreateResource(caps, count) == Append(caps, count)

\* Element capacity of the resource the buffer currently holds.
Capacity(b, caps) == caps[b.resource]

\* VectorConstantBuffer::new: max_size = initial_size, current_len = 0.
VcbNew(initial_size) ==
    /\ res_cap = CreateResource(<<>>, initial_size)
    /\ vcb = [resource |-> 1, max_size |-> initial_size, current_len |-> 0]
    /\ vcb_initial = initial_size
    /\ vcb_call = NoCall
    /\ vcb_uploads = 0
    /\ vcb_reallocs = 0
    /\ vcb_max_ok = 0

NeedsGrowInclusive(b, len) == b.max_size <= len

NeedsGrowNever(b, len) == FALSE

\* upload_deferred_delete, the grow decision: self.max_size < data.len()
NeedsGrow(b, len) == b.max_size < len

LenKeepsLargest(b, len) == IF b.current_len > len THEN b.current_len ELSE len

\* upload_deferred_delete: self.current_len = data.len()
NewLen(b, len) == len

\* upload_deferred_delete(data) with data.len() = len, every call succeeding.
\* max_size is assigned in new() only: no line of upload_deferred_delete writes it.
VcbUploadOk(len) ==
    LET grow == NeedsGrow(vcb, len)
        caps == IF grow THEN CreateResource(res_cap, len) ELSE res_cap
        held == IF grow THEN Len(caps) ELSE vcb.resource
    IN  /\ res_cap' = caps
        /\ vcb' = [vcb EXCEPT !.resource = held, !.current_len = NewLen(vcb, len)]
        /\ vcb_call' = [op |-> "upload", len |-> len, result |-> "Ok",
                        deleted |-> IF grow THEN vcb.resource ELSE 0,
                        resource_before |-> vcb.resource,
                        cap_before |-> Capacity(vcb, res_cap),
                        max_ok_before |-> vcb_max_ok]
        /\ vcb_reallocs' = vcb_reallocs + (IF grow THEN 1 ELSE 0)
        /\ vcb_max_ok' = IF len > vcb_max_ok THEN len ELSE vcb_max_ok

AllocErrAssignsLen(b, len) == [b EXCEPT !.current_len = len]

\* The buffer when `Self::create_resource(..)?` returns the error: the `?` is
\* inside the `if`, before mem::replace and before current_len is assigned.
AfterAllocErr(b, len) == b

\* upload_deferred_delete(data) where create_resource returns Err: the `?`
\* returns before anything is assigned.
VcbUploadAllocErr(len) ==
    /\ NeedsGrow(vcb, len)
    /\ vcb' = AfterAllocErr(vcb, len)
    /\ vcb_call' = [op |-> "upload", len |-> len, result |-> "AllocErr", deleted |-> 0,
                    resource_before |-> vcb.resource,
                    cap_before |-> Capacity(vcb, res_cap),
                        max_ok_before |-> vcb_max_ok]
    /\ UNCHANGED <<res_cap, vcb_reallocs, vcb_max_ok>>

\* upload_deferred_delete(data) where Map returns Err: the resource has been
\* replaced and current_len assigned, the discarded resource is dropped.
VcbUploadMapErr(len) ==
    LET grow == NeedsGrow(vcb, len)
        caps == IF grow THEN CreateResource(res_cap, len) ELSE res_cap
        held == IF grow THEN Len(caps) ELSE vcb.resource
    IN  /\ res_cap' = caps
        /\ vcb' = [vcb EXCEPT !.resource = held, !.current_len = NewLen(vcb, len)]
        /\ vcb_call' = [op |-> "upload", len |-> len, result |-> "MapErr", deleted |-> 0,
                        resource_before |-> vcb.resource,
                        cap_before |-> Capacity(vcb, res_cap),
                        max_ok_before |-> vcb_max_ok]
        /\ vcb_reallocs' = vcb_reallocs + (IF grow THEN 1 ELSE 0)
        /\ UNCHANGED vcb_max_ok

VcbUpload ==
    /\ vcb_uploads < MaxUploads
    /\ vcb_uploads' = vcb_uploads + 1
    /\ \E len \in 0..MaxLen :
          \/ VcbUploadOk(len)
          \/ VcbUploadAllocErr(len)
          \/ VcbUploadMapErr(len)
    /\ UNCHANGED <<vcb_initial, ringVars, mainVars, sideVars>>

\* len() and is_empty()
len(b) == b.current_len
is_empty(b) == b.current_len = 0

VcbIdle ==
    /\ res_cap = <<0>>
    /\ vcb = [resource |-> 1, max_size |-> 0, current_len |-> 0]
    /\ vcb_initial = 0
    /\ vcb_call = NoCall
    /\ vcb_uploads = 0
    /\ vcb_reallocs = 0
    /\ vcb_max_ok = 0

\* ============================================== RunningState: construction

Slots == 0..(frame_count - 1)
Buffers == 0..(BufferCount - 1)
TexIds == 0..(MaxTex - 1)

\* egui::TextureId
Managed(n) == [kind |-> "Managed", id |-> n]
User(n) == [kind |-> "User", id |-> n]

\* One recorded command. res: a back buffer or a texture resource.
Cmd(op, res, before, after, idx, key) ==
    [op |-> op, res |-> res, before |-> before, after |-> after, idx |-> idx, key |-> key]

\* mod.rs transition(resource, before, after)
transition(buf, before, after) == Cmd("barrier", buf, before, after, 0, 0)

\* One item of the command queue. Types "exec" and "signal" are a frame slot's
\* (who: the slot), "tm_wait", "tm_exec" and "tm_signal" the texture manager's,
\* "present" the swapchain's (who: the back buffer), "drop_signal" and
\* "drop_wait" those of Drop for Swapchain.
Item(type, who, cmds) == [type |-> type, who |-> who, cmds |-> cmds]

ClosedList == [open |-> FALSE, cmds |-> <<>>]
EmptyDelta == [set |-> <<>>, free |-> <<>>]

\* RunningState::new: Swapchain::new(.., 3), the ring of RunningFrameData
\* (CreateFence(1): "All fences start in the signaled state", Event::new(false),
\* free_list: vec![]) and EguiRenderer::new with TextureManager::new.
RunningStateNew(n) ==
    /\ FrameDataNew(n)
    /\ pc = "idle"
    /\ cmd_list = [s \in 0..(n - 1) |-> ClosedList]
    /\ fence = [s \in 0..(n - 1) |-> 1]
    /\ event = [s \in 0..(n - 1) |-> FALSE]
    /\ armed = [s \in 0..(n - 1) |-> FALSE]
    /\ free_list = [s \in 0..(n - 1) |-> <<>>]
    /\ back_buffer_index = 0
    /\ rt_state = [b \in Buffers |-> "PRESENT"]
    /\ textures_delta = EmptyDelta
    /\ meshes = <<>>
    /\ draw_count = 0
    /\ textures = [t \in TexIds |-> 0]
    /\ tex_state = <<>>
    /\ tm_fence = 1
    /\ tm_list = FALSE
    /\ tm_i = 0
    /\ tm_new = FALSE
    /\ ui_live = {}
    /\ ui_next = 0
    /\ queue = <<>>
    /\ prims = <<>>
    /\ ui_calls = 0
    /\ redraw_requested = TRUE

MainIdle ==
    /\ pc = "off"
    /\ cmd_list = <<>>
    /\ fence = <<>>
    /\ event = <<>>
    /\ armed = <<>>
    /\ free_list = <<>>
    /\ back_buffer_index = 0
    /\ rt_state = <<>>
    /\ textures_delta = EmptyDelta
    /\ meshes = <<>>
    /\ draw_count = 0
    /\ textures = <<>>
    /\ tex_state = <<>>
    /\ tm_fence = 1
    /\ tm_list = FALSE
    /\ tm_i = 0
    /\ tm_new = FALSE
    /\ ui_live = {}
    /\ ui_next = 0
    /\ queue = <<>>
    /\ prims = <<>>
    /\ ui_calls = 0
    /\ redraw_requested = FALSE

\* ================================================================= the GPU

\* The process is alive: it has neither panicked nor unwrapped an Err, and the
\* RunningState has not been dropped (where the model ends).
Alive == pc \notin {"error", "panicked", "dropped"}

\* Submitted and not yet completed: the list's item is still in the queue.
InFlight(type, who) ==
    \E i \in 1..Len(queue) : queue[i].type = type /\ queue[i].who = who

RECURSIVE ApplyBarriers(_, _, _)
\* The resource states after executing the barriers of `cmds` that act on the
\* kind of resource `op` names ("barrier": back buffers, "tbarrier": textures).
ApplyBarriers(states, cmds, op) ==
    IF cmds = <<>> THEN states
    ELSE LET c == Head(cmds)
             next == IF c.op = op /\ states[c.res] # "RELEASED"
                     THEN [states EXCEPT ![c.res] = c.after]
                     ELSE states
         IN  ApplyBarriers(next, Tail(cmds), op)

\* The queue completes an ExecuteCommandLists item.
GpuExecute ==
    /\ Alive
    /\ queue # <<>>
    /\ Head(queue).type \in {"exec", "tm_exec"}
    /\ rt_state' = ApplyBarriers(rt_state, Head(queue).cmds, "barrier")
    /\ tex_state' = ApplyBarriers(tex_state, Head(queue).cmds, "tbarrier")
    /\ queue' = Tail(queue)
    /\ UNCHANGED <<ringVars, vcbVars, sideVars, frameVars, drawVars, back_buffer_index, eguiVars,
                   textures, tm_fence, tm_list, tm_i, tm_new, uiVars>>

\* The queue reaches a Signal(fence, 1) item: the fence takes the value, and a
\* pending SetEventOnCompletion(1, event) of a slot's fence sets the event.
GpuSignal ==
    /\ Alive
    /\ queue # <<>>
    /\ Head(queue).type \in {"signal", "tm_signal"}
    /\ IF Head(queue).type = "tm_signal"
       THEN /\ tm_fence' = 1
            /\ UNCHANGED <<fence, event, armed>>
       ELSE LET s == Head(queue).who
            IN  /\ fence' = [fence EXCEPT ![s] = 1]
                /\ event' = [event EXCEPT ![s] = event[s] \/ armed[s]]
                /\ armed' = [armed EXCEPT ![s] = FALSE]
                /\ UNCHANGED tm_fence
    /\ queue' = Tail(queue)
    /\ UNCHANGED <<ringVars, vcbVars, sideVars, frameVars, pc, cmd_list, free_list, swapVars, eguiVars,
                   textures, tex_state, tm_list, tm_i, tm_new, uiVars>>

\* The queue reaches a Wait(fence, 1) item: it passes once the fence is >= 1.
GpuWait ==
    /\ Alive
    /\ queue # <<>>
    /\ Head(queue).type = "tm_wait"
    /\ tm_fence >= 1
    /\ queue' = Tail(queue)
    /\ UNCHANGED <<ringVars, vcbVars, sideVars, frameVars, drawVars, swapVars, eguiVars, tmVars, uiVars>>

\* The queue reaches a Present item: the buffer is handed to the display.
GpuPresent ==
    /\ Alive
    /\ queue # <<>>
    /\ Head(queue).type = "present"
    /\ queue' = Tail(queue)
    /\ UNCHANGED <<ringVars, vcbVars, sideVars, frameVars, drawVars, swapVars, eguiVars, tmVars, uiVars>>

\* ========================================================= the UI toolkit

RECURSIVE SortedSeq(_)
SortedSeq(S) ==
    IF S = {} THEN <<>>
    ELSE LET m == CHOOSE x \in S : \A y \in S : x <= y
         IN  <<m>> \o SortedSeq(S \ {m})

SeqsUpTo(S, n) == UNION {[1..k -> S] : k \in 0..n}

\* The primitives a frame may hold: meshes with a managed texture that is
\* allocated while the frame is built, meshes with a user texture, and paint
\* callbacks.
Primitives(usable) ==
    {[kind |-> "Mesh", texture_id |-> Managed(t)] : t \in usable}
        \cup {[kind |-> "Mesh", texture_id |-> User(0)],
              [kind |-> "Callback", texture_id |-> User(0)]}

\* The managed ids a frame may allocate: none, or the next one (ids count up
\* and are never reused).
NewIds == {{}} \cup (IF ui_next < MaxTex THEN {{ui_next}} ELSE {})

\* The textures a frame may update: the font texture (id 0) while allocated.
Updates == SUBSET (ui_live \cap {0})

\* The ids a frame may free: at most one of those allocated during the frame.
Frees(new) == {x \in SUBSET (ui_live \cup new) : Cardinality(x) <= 1}

ManagedSeq(S) == LET s == SortedSeq(S) IN [i \in 1..Len(s) |-> Managed(s[i])]

\* ============================================================ EguiRenderer

RECURSIVE UpdatePrimitivesFrom(_, _, _)
\* EguiRenderer::update_primitives, the loop from position i (index i - 1).
\* A mesh slot keeps the texture key it was pushed with; the uploads into its
\* two buffers leave the key alone.
UpdatePrimitivesFrom(ms, primitives, i) ==
    IF i > Len(primitives) THEN [panic |-> FALSE, meshes |-> ms]
    ELSE LET p == primitives[i] IN
         IF p.kind # "Mesh"
         THEN UpdatePrimitivesFrom(ms, primitives, i + 1)
         ELSE IF Len(ms) < i
              THEN IF p.texture_id.kind # "Managed"
                   THEN UpdatePrimitivesFrom(ms, primitives, i + 1)
                   ELSE LET pushed == Append(ms, [texture |-> p.texture_id.id])
                        IN  IF Len(pushed) < i
                            THEN [panic |-> TRUE, meshes |-> pushed]
                            ELSE UpdatePrimitivesFrom(pushed, primitives, i + 1)
              ELSE UpdatePrimitivesFrom(ms, primitives, i + 1)

update_primitives(ms, primitives) == UpdatePrimitivesFrom(ms, primitives, 1)

\* TextureManager::get_descriptor_heap: 0 stands for None.
get_descriptor_heap(cache, key) == cache[key]

RECURSIVE OverlayDrawsFrom(_, _, _, _)
\* EguiRenderer::draw, the loop over 0..draw_count from draw_index i.
OverlayDrawsFrom(ms, cache, count, i) ==
    IF i >= count THEN [panic |-> FALSE, cmds |-> <<>>]
    ELSE IF Len(ms) < i + 1 THEN [panic |-> TRUE, cmds |-> <<>>]
    ELSE IF get_descriptor_heap(cache, ms[i + 1].texture) = 0
         THEN [panic |-> TRUE, cmds |-> <<>>]
    ELSE LET rest == OverlayDrawsFrom(ms, cache, count, i + 1)
             d == Cmd("draw", get_descriptor_heap(cache, ms[i + 1].texture),
                      "", "", i, ms[i + 1].texture)
         IN  [panic |-> rest.panic, cmds |-> <<d>> \o rest.cmds]

CloneFree(delta) == [returned |-> delta.free, delta |-> delta]

\* apply_texture_delta's result: Ok(std::mem::take(&mut self.textures_delta.free))
TakeFree(delta) == [returned |-> delta.free, delta |-> [delta EXCEPT !.free = <<>>]]

\* ========================================================== TextureManager

\* set(): the filter_map over the delta keeps the managed ids.
ManagedOf(list) == SelectSeq(list, LAMBDA t : t.kind = "Managed")

TMFreeNothing(cache, list) == cache

\* free(): textures.remove(id) for every managed id of the list.
TMFree(cache, list) ==
    [t \in DOMAIN cache |->
        IF \E i \in 1..Len(list) : list[i] = Managed(t) THEN 0 ELSE cache[t]]

\* The resources whose cache entry a free() drops are released.
ReleaseFreed(states, before, after) ==
    [r \in DOMAIN states |->
        IF \E t \in DOMAIN before : before[t] = r /\ after[t] # r
        THEN "RELEASED" ELSE states[r]]

StateBeforeAlwaysRead(new_resource) == "GENERIC_READ"

\* set(): StateBefore of the first transition.
StateBefore(new_resource) == IF new_resource THEN "COMMON" ELSE "GENERIC_READ"

\* set(): aligned_row_bytes = 4 * width + D3D12_TEXTURE_DATA_PITCH_ALIGNMENT
\*                            - (4 * width) % D3D12_TEXTURE_DATA_PITCH_ALIGNMENT
\* in u32; for the widths explored 4 * width + 256 stays below 2^32, so the
\* arithmetic does not wrap.
aligned_row_bytes(width) ==
    4 * width + D3D12_TEXTURE_DATA_PITCH_ALIGNMENT
        - ((4 * width) % D3D12_TEXTURE_DATA_PITCH_ALIGNMENT)

\* set(), the sizes of one upload: the upload buffer has
\* aligned_row_bytes * height bytes, fill_buffer_aligned copies the rows at a
\* stride of aligned_row_bytes, and the copy footprint's RowPitch is
\* aligned_row_bytes.
SetSizes ==
    /\ ~tex_upload.done
    /\ tex_upload' = [tex_upload EXCEPT
                        !.done = TRUE,
                        !.buffer_size = aligned_row_bytes(tex_upload.width) * tex_upload.height,
                        !.copy_pitch = aligned_row_bytes(tex_upload.width),
                        !.row_pitch = aligned_row_bytes(tex_upload.width)]
    /\ UNCHANGED <<ringVars, vcbVars, mainVars, pool, window, runner>>

\* ====================================================== RunningState::draw

Slot == current_frame

Enqueue(items) == queue' = queue \o items

\* window_event(RedrawRequested) -> draw: get_current_mut and
\* fence.SetEventOnCompletion(1, event): the event is set at once when the
\* fence is at 1 already, otherwise when the fence gets there.
DrawBegin ==
    /\ pc = "idle"
    /\ redraw_requested
    /\ pc' = "wait"
    /\ redraw_requested' = FALSE
    /\ IF fence[Slot] >= 1
       THEN event' = [event EXCEPT ![Slot] = TRUE] /\ UNCHANGED armed
       ELSE armed' = [armed EXCEPT ![Slot] = TRUE] /\ UNCHANGED event
    /\ UNCHANGED <<ringVars, vcbVars, sideVars, prims, ui_calls, cmd_list, fence, free_list, swapVars, eguiVars,
                   tmVars, uiVars, queue>>

WaitReturnsAtOnce(s) == TRUE

\* Event::wait: WaitForSingleObject(handle, INFINITE) returns WAIT_OBJECT_0
\* once the event is signaled.
WaitReturns(s) == event[s]

\* event.wait()?: the auto-reset event is consumed.
DrawWait ==
    /\ pc = "wait"
    /\ pc' = "begin_frame"
    /\ WaitReturns(Slot)
    /\ event' = [event EXCEPT ![Slot] = FALSE]
    /\ UNCHANGED <<ringVars, vcbVars, sideVars, frameVars, cmd_list, fence, armed, free_list, swapVars,
                   eguiVars, tmVars, uiVars, queue>>

\* The first barrier of a frame: PRESENT -> RENDER_TARGET.
BeginBarrier(buf) == transition(buf, "PRESENT", "RENDER_TARGET")

\* fence.Signal(0)?; command_allocator.Reset()?; command_list.Reset(..)?;
\* command_list.ResourceBarrier(PRESENT -> RENDER_TARGET)
DrawBeginFrame ==
    /\ pc = "begin_frame"
    /\ pc' = "record"
    /\ fence' = [fence EXCEPT ![Slot] = 0]
    /\ cmd_list' = [cmd_list EXCEPT
                      ![Slot] = [open |-> TRUE, cmds |-> <<BeginBarrier(back_buffer_index)>>]]
    /\ UNCHANGED <<ringVars, vcbVars, sideVars, frameVars, event, armed, free_list, swapVars,
                   eguiVars, tmVars, uiVars, queue>>

RunUiTwice(calls) == calls + 2

\* record(): self.context.run(raw_input, ui_function) invokes the callback,
\* |ctx| self.app.record_ui(ctx), once.
RunUi(calls) == calls + 1

\* egui_renderer.record(|ctx| app.record_ui(ctx))?: run the UI, tessellate,
\* update_primitives (which may panic on meshes[index]), then store the
\* frame's textures_delta.
DrawRecord ==
    /\ pc = "record"
    /\ \E new \in NewIds : \E upd \in Updates : \E fr \in Frees(new) :
       \E primitives \in SeqsUpTo(Primitives(ui_live \cup new), MaxPrims) :
          LET r == update_primitives(meshes, primitives)
          IN  /\ ui_live' = (ui_live \cup new) \ fr
              /\ ui_next' = ui_next + Cardinality(new)
              /\ meshes' = r.meshes
              /\ prims' = primitives
              /\ IF r.panic
                 THEN /\ pc' = "panicked"
                      /\ UNCHANGED <<draw_count, textures_delta>>
                 ELSE /\ pc' = "tm_free"
                      /\ draw_count' = Len(primitives)
                      /\ textures_delta' = [set |-> ManagedSeq(new \cup upd),
                                            free |-> ManagedSeq(fr)]
    /\ ui_calls' = RunUi(ui_calls)
    /\ UNCHANGED <<ringVars, vcbVars, sideVars, redraw_requested, cmd_list, fence, event, armed, free_list, swapVars,
                   tmVars, queue>>

\* The list apply_texture_delta hands to texture_manager.free: its argument,
\* the slot's free_list (`apply_texture_delta(free_list)`).
FreeArgument(slot_list, delta) == slot_list

\* apply_texture_delta(free_list): texture_manager.free(free_list)
DrawTmFree ==
    /\ pc = "tm_free"
    /\ pc' = IF ManagedOf(textures_delta.set) = <<>> THEN "tm_final" ELSE "tm_begin"
    /\ textures' = TMFree(textures, FreeArgument(free_list[Slot], textures_delta))
    /\ tex_state' = ReleaseFreed(tex_state, textures, textures')
    /\ tm_i' = IF ManagedOf(textures_delta.set) = <<>> THEN 0 ELSE 1
    /\ UNCHANGED <<ringVars, vcbVars, sideVars, frameVars, cmd_list, fence, event, armed, free_list, swapVars,
                   eguiVars, tm_fence, tm_list, tm_new, uiVars, queue>>

\* set(), one delta: the upload buffer, textures.entry(id).or_insert_with(..)
\* and queue.Wait(fence, 1)
DrawTmBegin ==
    /\ pc = "tm_begin"
    /\ pc' = "tm_reset"
    /\ LET id == ManagedOf(textures_delta.set)[tm_i].id
           absent == textures[id] = 0
       IN  /\ tm_new' = absent
           /\ IF absent
              THEN /\ tex_state' = Append(tex_state, "COMMON")
                   /\ textures' = [textures EXCEPT ![id] = Len(tex_state) + 1]
              ELSE UNCHANGED <<tex_state, textures>>
    /\ Enqueue(<<Item("tm_wait", 0, <<>>)>>)
    /\ UNCHANGED <<ringVars, vcbVars, sideVars, frameVars, cmd_list, fence, event, armed, free_list, swapVars,
                   eguiVars, tm_fence, tm_list, tm_i, uiVars>>

\* set(), one delta: fence.Signal(0), command_allocator.Reset(),
\* command_list.Reset(..)
DrawTmReset ==
    /\ pc = "tm_reset"
    /\ pc' = "tm_submit"
    /\ tm_fence' = 0
    /\ tm_list' = TRUE
    /\ UNCHANGED <<ringVars, vcbVars, sideVars, frameVars, cmd_list, fence, event, armed, free_list, swapVars,
                   eguiVars, textures, tex_state, tm_i, tm_new, uiVars, queue>>

\* set(), one delta: the commands of one upload.
UploadCmds(res, new_resource) ==
    << Cmd("tbarrier", res, StateBefore(new_resource), "COPY_DEST", 0, 0),
       Cmd("copy", res, "", "", 0, 0),
       Cmd("tbarrier", res, "COPY_DEST", "GENERIC_READ", 0, 0) >>

\* set(), one delta: the barriers and the copy, Close, ExecuteCommandLists
\* and queue.Signal(fence, 1); then the next delta, if any.
DrawTmSubmit ==
    /\ pc = "tm_submit"
    /\ LET ids == ManagedOf(textures_delta.set)
           cmds == UploadCmds(textures[ids[tm_i].id], tm_new)
       IN  /\ tm_list' = FALSE
           /\ Enqueue(<<Item("tm_exec", 0, cmds), Item("tm_signal", 0, <<>>)>>)
           /\ pc' = IF tm_i < Len(ids) THEN "tm_begin" ELSE "tm_final"
           /\ tm_i' = IF tm_i < Len(ids) THEN tm_i + 1 ELSE 0
    /\ tm_new' = FALSE
    /\ UNCHANGED <<ringVars, vcbVars, sideVars, frameVars, cmd_list, fence, event, armed, free_list, swapVars,
                   eguiVars, textures, tex_state, tm_fence, uiVars>>

\* set(): the queue.Wait(fence, 1) after the loop; then apply_texture_delta
\* returns the taken free list, which draw stores in the slot's free_list.
DrawTmFinal ==
    /\ pc = "tm_final"
    /\ pc' = "app_draw"
    /\ Enqueue(<<Item("tm_wait", 0, <<>>)>>)
    /\ free_list' = [free_list EXCEPT ![Slot] = TakeFree(textures_delta).returned]
    /\ textures_delta' = TakeFree(textures_delta).delta
    /\ UNCHANGED <<ringVars, vcbVars, sideVars, frameVars, cmd_list, fence, event, armed, swapVars,
                   meshes, draw_count, tmVars, uiVars>>

EndBarrierMissing(buf) == transition(buf, "RENDER_TARGET", "RENDER_TARGET")

\* The last barrier of a frame: RENDER_TARGET -> PRESENT.
EndBarrier(buf) == transition(buf, "RENDER_TARGET", "PRESENT")

CloseLeavesOpen(list) == list

\* command_list.Close(): the list stops recording.
Close(list) == [list EXCEPT !.open = FALSE]

\* The order draw records the two callbacks' commands in: self.app.draw(..)
\* first, then self.egui_renderer.draw(..).
FrameContent(user, overlay) == user \o overlay

\* self.app.draw(&frame_resources)?; self.egui_renderer.draw(..): the overlay's
\* state setting and one indexed draw per live mesh, where meshes[draw_index]
\* and the unwrap of the descriptor heap may panic; then
\* ResourceBarrier(RENDER_TARGET -> PRESENT) and command_list.Close()?
DrawRecordCommands ==
    /\ pc = "app_draw"
    /\ LET r == OverlayDrawsFrom(meshes, textures, draw_count, 0)
           content == FrameContent(<<Cmd("user", 0, "", "", 0, 0)>>,
                                   <<Cmd("overlay", 0, "", "", 0, 0)>> \o r.cmds)
       IN  IF r.panic
           THEN /\ pc' = "panicked"
                /\ cmd_list' = [cmd_list EXCEPT ![Slot].cmds = cmd_list[Slot].cmds \o content]
           ELSE /\ pc' = "submit"
                /\ cmd_list' = [cmd_list EXCEPT ![Slot] =
                       Close([open |-> TRUE,
                              cmds |-> cmd_list[Slot].cmds \o content
                                          \o <<EndBarrier(back_buffer_index)>>])]
    /\ UNCHANGED <<ringVars, vcbVars, sideVars, frameVars, fence, event, armed, free_list, swapVars,
                   eguiVars, tmVars, uiVars, queue>>

PresentKeepsBuffer(index) == index

\* IDXGISwapChain::Present on a swapchain of BufferCount buffers: what
\* GetCurrentBackBufferIndex() returns afterwards.
PresentFlip(index) == (index + 1) % BufferCount

\* queue.ExecuteCommandLists(&[command_list]); queue.Signal(fence, 1)?;
\* swapchain.Present(1, ..), which is appended to the queue and moves the
\* swapchain on to its next back buffer; frame_data.increment_frame();
\* window.request_redraw(); Ok(()). From here on the recorded commands are
\* kept with the queue item, until the GPU completes it.
\* `adv` is the count of finished draws afterwards; the frame loop itself
\* keeps no such count.
SubmitAndPresent(adv) ==
    /\ pc = "submit"
    /\ pc' = "idle"
    /\ Enqueue(<<Item("exec", Slot, cmd_list[Slot].cmds), Item("signal", Slot, <<>>),
                 Item("present", back_buffer_index, <<>>)>>)
    /\ cmd_list' = [cmd_list EXCEPT ![Slot].cmds = <<>>]
    /\ back_buffer_index' = PresentFlip(back_buffer_index)
    /\ current_frame' = increment_frame(current_frame, frame_count)
    /\ advances' = adv
    /\ redraw_requested' = TRUE
    /\ prims' = <<>>
    /\ ui_calls' = 0
    /\ UNCHANGED <<frame_count, vcbVars, sideVars, fence, event, armed, free_list,
                   rt_state, eguiVars, tmVars, uiVars>>

DrawSubmit == SubmitAndPresent(advances)

\* ------------------------------------------ the five-frame scenario's steps

\* The window asks for a redraw of one of the scenario's frames.
ScenarioBegin ==
    /\ advances < ScenarioFrames
    /\ DrawBegin

\* record with a UI that emits no geometry: tessellate returns no primitive
\* (the UI may still allocate its font texture).
ScenarioRecord ==
    /\ DrawRecord
    /\ prims' = <<>>

\* A scenario frame's submission, counted.
ScenarioSubmit == SubmitAndPresent(advances + 1)

\* ---------------------------------------------------- RunningState::event

Sizes == (1..MaxSide) \X (1..MaxSide)

\* Swapchain::new(lib, window, width, height, 3) with window.inner_size():
\* back buffers of the window's size, viewport and scissor from 0,0 to
\* width,height.
SwapchainNew(size) ==
    [inner_size |-> size, buffers |-> size, viewport |-> size, scissor |-> size]

\* The window events that reach RunningState::event: a resize to a new inner
\* size, or any other event (input, focus, ..).
WindowEvents ==
    {[kind |-> "Resized", size |-> sz] : sz \in Sizes}
        \cup {[kind |-> "Other", size |-> <<0, 0>>]}

ResizeApplies(w, new_size) == SwapchainNew(new_size)

\* `if let WindowEvent::Resized(_new_size) = event { // Resize swapchain }`:
\* the branch is empty.
Resized(w, new_size) == w

\* RunningState::event on a window the OS has given the event's size already:
\* return when egui's handle_event consumed the event, else the Resized
\* branch.
Event(w, ev, consumed) ==
    LET seen == IF ev.kind = "Resized" THEN [w EXCEPT !.inner_size = ev.size] ELSE w
    IN  IF consumed THEN seen
        ELSE IF ev.kind = "Resized" THEN Resized(seen, ev.size)
        ELSE seen

\* window_event(event) for an event other than CloseRequested and
\* RedrawRequested, between two draws: running_state.event(&event).
RunningStateEvent ==
    /\ pc = "idle"
    /\ \E ev \in WindowEvents : \E consumed \in BOOLEAN :
          window' = Event(window, ev, consumed)
    /\ UNCHANGED <<ringVars, vcbVars, mainVars, pool, tex_upload, runner>>

\* ---------------------------------------------------------------- AppRunner

CloneCreator(c) == [got |-> c, left |-> c]

\* self.app_creator.take(): the Option's content is moved out, None is left.
TakeCreator(c) == [got |-> c, left |-> FALSE]

\* try_initialize_app, where `outcome` says which of its fallible calls fails:
\* create_window or GPULib::new (before the creator is taken), RunningState::new
\* (after the creator has run), or none. A creator already taken is an Err of
\* its own; running_state.set fails on a cell that is set.
try_initialize_app(r, outcome) ==
    IF outcome \in {"window_err", "lib_err"} THEN [ok |-> FALSE, runner |-> r]
    ELSE LET t == TakeCreator(r.app_creator)
             taken == [r EXCEPT !.app_creator = t.left]
         IN  IF ~t.got THEN [ok |-> FALSE, runner |-> taken]
             ELSE LET made == [taken EXCEPT !.creator_calls = @ + 1]
                  IN  IF outcome = "new_err" THEN [ok |-> FALSE, runner |-> made]
                      ELSE IF made.running_state THEN [ok |-> FALSE, runner |-> made]
                      ELSE [ok |-> TRUE,
                            runner |-> [made EXCEPT !.running_state = TRUE,
                                                    !.sets = @ + 1]]

\* The event loop makes one more callback: it has not exited yet.
Callback(r) == [r EXCEPT !.calls = @ + 1]

CanCall == ~runner.exited /\ runner.calls < MaxCalls

\* resumed: return when the running state exists; else try_initialize_app, and
\* on Err the message box and event_loop.exit().
Resumed ==
    /\ CanCall
    /\ \E outcome \in {"window_err", "lib_err", "new_err", "ok"} :
          LET r == Callback(runner)
              i == try_initialize_app(r, outcome)
          IN  runner' = IF r.running_state THEN r
                        ELSE IF i.ok THEN i.runner
                        ELSE [i.runner EXCEPT !.failed = @ + 1, !.exit = TRUE]
    /\ UNCHANGED <<ringVars, vcbVars, mainVars, pool, tex_upload, window>>

\* window_event(RedrawRequested): draw, if the running state exists.
WindowEventRedraw ==
    /\ CanCall
    /\ LET r == Callback(runner)
       IN  runner' = IF r.running_state THEN [r EXCEPT !.draws = @ + 1]
                     ELSE [r EXCEPT !.ignored = @ + 1]
    /\ UNCHANGED <<ringVars, vcbVars, mainVars, pool, tex_upload, window>>

\* window_event(event): running_state.event(&event), if the running state
\* exists.
WindowEventOther ==
    /\ CanCall
    /\ LET r == Callback(runner)
       IN  runner' = IF r.running_state THEN [r EXCEPT !.events = @ + 1]
                     ELSE [r EXCEPT !.ignored = @ + 1]
    /\ UNCHANGED <<ringVars, vcbVars, mainVars, pool, tex_upload, window>>

\* window_event(CloseRequested): event_loop.exit().
WindowEventClose ==
    /\ CanCall
    /\ runner' = [Callback(runner) EXCEPT !.exit = TRUE]
    /\ UNCHANGED <<ringVars, vcbVars, mainVars, pool, tex_upload, window>>

\* The event loop, asked to exit, finishes its iteration and returns.
LoopExit ==
    /\ runner.exit
    /\ ~runner.exited
    /\ runner' = [runner EXCEPT !.exited = TRUE]
    /\ UNCHANGED <<ringVars, vcbVars, mainVars, pool, tex_upload, window>>

\* ------------------------------------------------- draw returning an error

ErrReturnAdvances(cur, n) == increment_frame(cur, n)

\* The ring index when draw returns through a `?` or through
\* `return Err("DXGI present failed".into())`: increment_frame has not run.
ErrReturn(cur, n) == cur

\* draw returns Err(..): neither increment_frame nor request_redraw has run,
\* and the RedrawRequested event that started the draw is consumed.
ReturnErr ==
    /\ pc' = "error"
    /\ current_frame' = ErrReturn(current_frame, frame_count)
    /\ redraw_requested' = FALSE
    /\ UNCHANGED <<frame_count, advances, vcbVars, sideVars>>

\* A call fails before the step it opens has had an effect:
\* fence.SetEventOnCompletion (idle), event.wait (wait), fence.Signal(0)
\* (begin_frame), create_upload_buffer or fill_buffer_aligned (tm_begin), the
\* texture manager's fence.Signal(0) (tm_reset), the last queue.Wait
\* (tm_final), app.draw (app_draw), command_list.cast (submit).
DrawFails ==
    /\ pc \in {"idle", "wait", "begin_frame", "tm_begin", "tm_reset", "tm_final",
                "app_draw", "submit"}
    /\ (pc = "idle" => redraw_requested)
    /\ ReturnErr
    /\ UNCHANGED <<cmd_list, fence, event, armed, free_list, swapVars, eguiVars, tmVars,
                   uiVars, queue, prims, ui_calls>>

\* command_allocator.Reset() or command_list.Reset(..) fails: fence.Signal(0)
\* has run.
DrawFailsReset ==
    /\ pc = "begin_frame"
    /\ fence' = [fence EXCEPT ![Slot] = 0]
    /\ ReturnErr
    /\ UNCHANGED <<cmd_list, event, armed, free_list, swapVars, eguiVars, tmVars,
                   uiVars, queue, prims, ui_calls>>

\* record fails: the UI has run, and the first VectorConstantBuffer::new or
\* upload of update_primitives returns Err; draw_count and textures_delta are
\* not assigned.
DrawFailsRecord ==
    /\ pc = "record"
    /\ \E new \in NewIds : \E fr \in Frees(new) :
       \E primitives \in SeqsUpTo(Primitives(ui_live \cup new), MaxPrims) :
          /\ \E i \in 1..Len(primitives) : primitives[i].kind = "Mesh"
          /\ ui_live' = (ui_live \cup new) \ fr
          /\ ui_next' = ui_next + Cardinality(new)
          /\ prims' = primitives
    /\ ui_calls' = RunUi(ui_calls)
    /\ ReturnErr
    /\ UNCHANGED <<cmd_list, fence, event, armed, free_list, swapVars, eguiVars, tmVars,
                   queue>>

\* set(): queue.Signal(fence, 1) fails after ExecuteCommandLists.
DrawFailsTmSignal ==
    /\ pc = "tm_submit"
    /\ tm_list' = FALSE
    /\ Enqueue(<<Item("tm_exec", 0,
                      UploadCmds(textures[ManagedOf(textures_delta.set)[tm_i].id], tm_new))>>)
    /\ ReturnErr
    /\ UNCHANGED <<cmd_list, fence, event, armed, free_list, swapVars, eguiVars,
                   textures, tex_state, tm_fence, tm_i, tm_new, uiVars, prims, ui_calls>>

\* draw: queue.Signal(fence, 1) fails after ExecuteCommandLists (signaled
\* FALSE), or Present fails after both (signaled TRUE).
DrawFailsSubmit(signaled) ==
    /\ pc = "submit"
    /\ Enqueue(<<Item("exec", Slot, cmd_list[Slot].cmds)>>
                \o (IF signaled THEN <<Item("signal", Slot, <<>>)>> ELSE <<>>))
    /\ cmd_list' = [cmd_list EXCEPT ![Slot].cmds = <<>>]
    /\ ReturnErr
    /\ UNCHANGED <<fence, event, armed, free_list, swapVars, eguiVars, tmVars, uiVars,
                   prims, ui_calls>>

DrawFailsSignal == DrawFailsSubmit(FALSE)

\* set(), one delta of an id without a cache entry: create_texture or
\* create_heap_for_texture fails inside or_insert_with, and the .unwrap()
\* panics before the entry is inserted.
DrawPanicsCreate ==
    /\ pc = "tm_begin"
    /\ textures[ManagedOf(textures_delta.set)[tm_i].id] = 0
    /\ pc' = "panicked"
    /\ UNCHANGED <<ringVars, vcbVars, sideVars, frameVars, cmd_list, fence, event, armed,
                   free_list, swapVars, eguiVars, tmVars, uiVars, queue>>

DrawFailsPresent == DrawFailsSubmit(TRUE)

UnwrapIgnores == "idle"

\* window_event(RedrawRequested): running_state.draw().unwrap() panics on Err.
Unwrap == "panicked"

DrawUnwrap ==
    /\ pc = "error"
    /\ pc' = Unwrap
    /\ UNCHANGED <<ringVars, vcbVars, sideVars, frameVars, cmd_list, fence, event, armed,
                   free_list, swapVars, eguiVars, tmVars, uiVars, queue>>

\* window_event(CloseRequested): event_loop.exit(), after which the AppRunner
\* and with it the RunningState are dropped. Drop for Swapchain: CreateFence(0),
\* queue.Signal(fence, 1) and queue.Wait(fence, 1), both appended to the queue;
\* then drop returns and the swapchain's resources are released.
SwapchainDrop ==
    /\ pc = "idle"
    /\ pc' = "dropped"
    /\ Enqueue(<<Item("drop_signal", 0, <<>>), Item("drop_wait", 0, <<>>)>>)
    /\ UNCHANGED <<ringVars, vcbVars, sideVars, frameVars, cmd_list, fence, event, armed,
                   free_list, swapVars, eguiVars, tmVars, uiVars>>

\* ============================================================ specifications

\* No ring is being constructed, no upload is being sized.
NoPool == [n |-> 0, fails |-> {}, calls |-> <<>>, slots |-> <<>>, result |-> "none"]
NoUpload == [width |-> 0, height |-> 0, done |-> FALSE,
             row_pitch |-> 0, buffer_size |-> 0, copy_pitch |-> 0]

\* No window has been created, the AppRunner is not part of the run.
NoWindow == [inner_size |-> <<0, 0>>, buffers |-> <<0, 0>>,
             viewport |-> <<0, 0>>, scissor |-> <<0, 0>>]
NoRunner == [app_creator |-> FALSE, running_state |-> FALSE, creator_calls |-> 0,
             sets |-> 0, draws |-> 0, events |-> 0, ignored |-> 0, failed |-> 0,
             calls |-> 0, exit |-> FALSE, exited |-> FALSE]

SideIdle ==
    /\ pool = NoPool
    /\ tex_upload = NoUpload
    /\ window = NoWindow
    /\ runner = NoRunner

InitRing ==
    /\ \E n \in 1..MaxRingSize : FrameDataNew(n)
    /\ advances = 0
    /\ VcbIdle
    /\ MainIdle
    /\ SideIdle

NextRing == RingIncrement

SpecRing == InitRing /\ [][NextRing]_vars

InitVCB ==
    /\ \E k \in 0..MaxLen : VcbNew(k)
    /\ RingIdle
    /\ MainIdle
    /\ SideIdle

NextVCB == VcbUpload

SpecVCB == InitVCB /\ [][NextVCB]_vars

\* The ring size: RunningState::new builds the ring with try_from_fn(1, ..),
\* its caller try_initialize_app hands it app_config.frame_count (default 2).
InitMain ==
    /\ \E n \in 1..MaxFrameCount : RunningStateNew(n)
    /\ advances = 0
    /\ VcbIdle
    /\ SideIdle

Next ==
    \/ DrawBegin
    \/ DrawWait
    \/ DrawBeginFrame
    \/ DrawRecord
    \/ DrawTmFree
    \/ DrawTmBegin
    \/ DrawTmReset
    \/ DrawTmSubmit
    \/ DrawTmFinal
    \/ DrawRecordCommands
    \/ DrawSubmit
    \/ SwapchainDrop
    \/ GpuExecute
    \/ GpuSignal
    \/ GpuWait
    \/ GpuPresent

Spec == InitMain /\ [][Next]_vars

\* The end-to-end scenario: a recording ring of 1 slot, ScenarioFrames frames
\* with no UI geometry.
InitScenario ==
    /\ RunningStateNew(1)
    /\ advances = 0
    /\ VcbIdle
    /\ SideIdle

NextScenario ==
    \/ ScenarioBegin
    \/ DrawWait
    \/ DrawBeginFrame
    \/ ScenarioRecord
    \/ DrawTmFree
    \/ DrawTmBegin
    \/ DrawTmReset
    \/ DrawTmSubmit
    \/ DrawTmFinal
    \/ DrawRecordCommands
    \/ ScenarioSubmit
    \/ GpuExecute
    \/ GpuSignal
    \/ GpuWait
    \/ GpuPresent

SpecScenario == InitScenario /\ [][NextScenario]_vars

\* The GPU keeps executing the queue: whatever item is at the head and able to
\* complete is completed.
FairGpu ==
    /\ WF_vars(GpuExecute)
    /\ WF_vars(GpuSignal)
    /\ WF_vars(GpuWait)
    /\ WF_vars(GpuPresent)

\* The steps of the thread that runs the event loop and draw, for frames
\* without UI geometry, one after the other without end.
CpuStep ==
    \/ DrawBegin
    \/ DrawWait
    \/ DrawBeginFrame
    \/ ScenarioRecord
    \/ DrawTmFree
    \/ DrawTmBegin
    \/ DrawTmReset
    \/ DrawTmSubmit
    \/ DrawTmFinal
    \/ DrawRecordCommands
    \/ DrawSubmit

NextLive ==
    \/ CpuStep
    \/ GpuExecute
    \/ GpuSignal
    \/ GpuWait
    \/ GpuPresent

\* Frames without end on a ring of one slot, under fair GPU execution and with
\* a thread that runs whenever it is not blocked in Event::wait.
SpecLive == InitScenario /\ [][NextLive]_vars /\ FairGpu /\ WF_vars(CpuStep)

\* run_app: the AppRunner holds the creator and an empty cell; the event loop
\* then calls resumed and window_event in any order.
InitRunner ==
    /\ RingIdle
    /\ VcbIdle
    /\ MainIdle
    /\ pool = NoPool
    /\ tex_upload = NoUpload
    /\ window = NoWindow
    /\ runner = [NoRunner EXCEPT !.app_creator = TRUE]

NextRunner ==
    \/ Resumed
    \/ WindowEventRedraw
    \/ WindowEventOther
    \/ WindowEventClose
    \/ LoopExit

SpecRunner == InitRunner /\ [][NextRunner]_vars

\* The scenario's frames on a window of any size, with window events handled
\* between the draws.
InitEvent ==
    /\ RunningStateNew(1)
    /\ advances = 0
    /\ VcbIdle
    /\ pool = NoPool
    /\ tex_upload = NoUpload
    /\ runner = NoRunner
    /\ \E size \in Sizes : window = SwapchainNew(size)

NextEvent ==
    \/ NextScenario
    \/ RunningStateEvent

SpecEvent == InitEvent /\ [][NextEvent]_vars

\* One image delta of any width and height is about to be uploaded.
InitPitch ==
    /\ RingIdle
    /\ VcbIdle
    /\ MainIdle
    /\ pool = NoPool
    /\ window = NoWindow
    /\ runner = NoRunner
    /\ \E w \in 0..MaxWidth : \E h \in 1..MaxHeight :
          tex_upload = [NoUpload EXCEPT !.width = w, !.height = h]

NextPitch == SetSizes

SpecPitch == InitPitch /\ [][NextPitch]_vars

\* try_from_fn is called with any frame_count and an initializer that fails
\* on any set of indices.
InitPool ==
    /\ RingIdle
    /\ VcbIdle
    /\ MainIdle
    /\ tex_upload = NoUpload
    /\ window = NoWindow
    /\ runner = NoRunner
    /\ \E n \in 0..MaxRingSize : \E f \in SUBSET (0..(MaxRingSize - 1)) :
          pool = [NoPool EXCEPT !.n = n, !.fails = f, !.result = "running"]

NextPool ==
    \/ TryFromFnCall
    \/ TryFromFnOk

SpecPool == InitPool /\ [][NextPool]_vars

\* The frame loop with every call of draw that returns a Result able to fail.
NextFail ==
    \/ Next
    \/ DrawFails
    \/ DrawFailsReset
    \/ DrawFailsRecord
    \/ DrawFailsTmSignal
    \/ DrawFailsSignal
    \/ DrawFailsPresent
    \/ DrawPanicsCreate
    \/ DrawUnwrap

SpecFail == InitMain /\ [][NextFail]_vars

\* A texture cache holding entries for the ids of C, created in id order.
CacheOf(C) ==
    [t \in TexIds |-> IF t \in C THEN Cardinality({u \in C : u <= t}) ELSE 0]

\* apply_texture_delta alone, for any cache, any free list passed in and any
\* recorded delta: a draw on a ring of one slot has waited, reset its list and
\* recorded the UI, the GPU is idle, and apply_texture_delta(free_list) is
\* about to run.
InitTex ==
    /\ FrameDataNew(1)
    /\ advances = 0
    /\ VcbIdle
    /\ SideIdle
    /\ pc = "tm_free"
    /\ cmd_list = [s \in {0} |-> [open |-> TRUE, cmds |-> <<BeginBarrier(0)>>]]
    /\ fence = [s \in {0} |-> 0]
    /\ event = [s \in {0} |-> FALSE]
    /\ armed = [s \in {0} |-> FALSE]
    /\ back_buffer_index = 0
    /\ rt_state = [b \in Buffers |-> "PRESENT"]
    /\ meshes = <<>>
    /\ draw_count = 0
    /\ tm_fence = 1
    /\ tm_list = FALSE
    /\ tm_i = 0
    /\ tm_new = FALSE
    /\ ui_live = {}
    /\ ui_next = MaxTex
    /\ queue = <<>>
    /\ prims = <<>>
    /\ ui_calls = 1
    /\ redraw_requested = FALSE
    /\ \E C \in SUBSET TexIds :
          /\ textures = CacheOf(C)
          /\ tex_state = [r \in 1..Cardinality(C) |-> "GENERIC_READ"]
    /\ \E F \in SUBSET TexIds : free_list = [s \in {0} |-> ManagedSeq(F)]
    /\ \E S \in SUBSET TexIds : \E D \in SUBSET TexIds :
          textures_delta = [set |-> ManagedSeq(S), free |-> ManagedSeq(D)]

NextTex ==
    \/ DrawTmFree
    \/ DrawTmBegin
    \/ DrawTmReset
    \/ DrawTmSubmit
    \/ DrawTmFinal
    \/ GpuExecute
    \/ GpuSignal
    \/ GpuWait

SpecTex == InitTex /\ [][NextTex]_vars

\* =================================================================== claims

\* C1: for every ring size, whenever a slot's allocator and list have been
\* reset (the list is open), no command list submitted from that slot is still
\* in the queue; and draw gets to the reset only with the slot's fence at 1 and
\* the slot's submissions and fence signals all completed.
C1_ResetOnlyAfterSlotFinished ==
    /\ \A s \in Slots : cmd_list[s].open => ~InFlight("exec", s)
    /\ (pc = "begin_frame" =>
            /\ fence[Slot] = 1
            /\ ~InFlight("exec", Slot)
            /\ ~InFlight("signal", Slot))

\* C1 witness: in a ring of 2, draw is about to reset slot 0 for the second
\* time at least, while the frame submitted from slot 1 is still on the GPU.
C1_Witness ==
    /\ pc = "begin_frame"
    /\ frame_count = 2
    /\ Slot = 0
    /\ InFlight("exec", 1)

C3_FixedCommandOrder ==
    LET FrameShape(cmds, b) ==
            /\ Len(cmds) >= 4
            /\ cmds[1] = Cmd("barrier", b, "PRESENT", "RENDER_TARGET", 0, 0)
            /\ cmds[2].op = "user"
            /\ cmds[3].op = "overlay"
            /\ \A j \in 4..(Len(cmds) - 1) : cmds[j].op = "draw"
            /\ cmds[Len(cmds)] = Cmd("barrier", b, "RENDER_TARGET", "PRESENT", 0, 0)
    IN  /\ (pc = "submit" =>
                /\ ~cmd_list[Slot].open
                /\ FrameShape(cmd_list[Slot].cmds, back_buffer_index))
        /\ \A i \in 1..Len(queue) :
              queue[i].type = "exec" =>
                  /\ i + 2 <= Len(queue)
                  /\ queue[i + 1].type = "signal"
                  /\ queue[i + 1].who = queue[i].who
                  /\ queue[i + 2].type = "present"
                  /\ FrameShape(queue[i].cmds, queue[i + 2].who)
        /\ (queue # <<>> /\ Head(queue).type = "present" =>
                rt_state[Head(queue).who] = "PRESENT")

\* C3 witness: the third frame, with one overlay draw, is the next list the
\* GPU executes.
C3_Witness ==
    /\ queue # <<>>
    /\ Head(queue).type = "exec"
    /\ Len(Head(queue).cmds) = 5
    /\ Head(queue).cmds[1].res = 2

\* C11: apply_texture_delta frees before it sets: when the id of the delta
\* being set is in the free list that was passed in, set() finds no entry and
\* creates one (new_resource), and once all deltas are set every id that is in
\* both lists has an entry whose resource is not a released one.
C11_FreedThenSetIsRecreated ==
    LET ids == ManagedOf(textures_delta.set)
        Passed(id) == \E i \in 1..Len(free_list[Slot]) : free_list[Slot][i] = Managed(id)
        Fresh(id) == textures[id] # 0 /\ tex_state[textures[id]] # "RELEASED"
    IN  /\ (pc \in {"tm_reset", "tm_submit"} /\ Passed(ids[tm_i].id) =>
                tm_new /\ Fresh(ids[tm_i].id))
        /\ (pc = "tm_final" =>
                \A i \in 1..Len(ids) : Passed(ids[i].id) => Fresh(ids[i].id))

\* C11 witness: texture 0 was cached, was in the free list passed in and in
\* the set list; its old resource is released and the entry is a second one.
C11_Witness ==
    /\ pc = "tm_final"
    /\ free_list[Slot] = <<Managed(0)>>
    /\ textures_delta.set = <<Managed(0)>>
    /\ tex_state[1] = "RELEASED"
    /\ textures[0] = 2

\* C12: a frame whose primitive list holds a paint callback or a mesh with a
\* user texture does not panic, and no draw is recorded for the index of such
\* a primitive.
C12_UnsupportedSkippedQuietly ==
    LET Supported(p) == p.kind = "Mesh" /\ p.texture_id.kind = "Managed"
        cmds == cmd_list[Slot].cmds
    IN  /\ (pc = "panicked" => \A i \in 1..Len(prims) : Supported(prims[i]))
        /\ (pc = "submit" =>
                \A j \in 1..Len(cmds) :
                    cmds[j].op = "draw" => Supported(prims[cmds[j].idx + 1]))

\* C13: while the texture manager's command list is reset for a delta, and
\* when set() has returned, no upload list submitted by set() is still in the
\* queue.
C13_SetWaitsForUpload ==
    /\ (tm_list => ~InFlight("tm_exec", 0))
    /\ (pc = "app_draw" => ~InFlight("tm_exec", 0))

\* C14: when Drop for Swapchain has returned, no command list submitted
\* before (a frame's or an upload's) is still in the queue.
C14_DropDrainsQueue ==
    pc = "dropped" =>
        \A i \in 1..Len(queue) : queue[i].type \notin {"exec", "tm_exec"}

\* C15: for every width w the row pitch of the upload buffer's size, of the
\* row copy and of the copy footprint is ceil(4 * w / 256) * 256.
C15_RowPitchIsCeil ==
    LET w == tex_upload.width
        ceil == (4 * w + 255) \div 256
    IN  tex_upload.done =>
            /\ tex_upload.row_pitch = ceil * 256
            /\ tex_upload.copy_pitch = ceil * 256
            /\ tex_upload.buffer_size = ceil * 256 * tex_upload.height

\* C16 as stated: of all command lists, the frame slots' and the texture
\* manager's, at most one is open at any time.
C16_NoTwoListsOpen ==
    Cardinality({s \in Slots : cmd_list[s].open}) + (IF tm_list THEN 1 ELSE 0) <= 1

\* C16 amended: at most one frame slot's list is open at any time, and it is
\* the current slot's; the texture manager's list is open only inside set(),
\* and then the current slot's list is open as well.
C16_OneFrameListOpen ==
    /\ \A s \in Slots : cmd_list[s].open => s = Slot
    /\ (tm_list => pc = "tm_submit" /\ cmd_list[Slot].open)

\* C16 witness: in a ring of 2, set() has reset its list for an upload while
\* the list of slot 1 is open.
C16_Witness ==
    /\ frame_count = 2
    /\ Slot = 1
    /\ pc = "tm_submit"
    /\ tm_list
    /\ cmd_list[1].open

\* C17 as stated: when record_ui is about to be invoked, nothing has been
\* recorded into the frame's command list.
C17_RecordUiBeforeAnyCommand ==
    pc = "record" => cmd_list[Slot].cmds = <<>>

\* C17 amended: record_ui is invoked exactly once per frame (never before
\* record, once from record on), when the frame's list holds the
\* PRESENT -> RENDER_TARGET barrier and nothing else, and so before the user
\* callback and the overlay record anything.
C17_RecordUiOnceAfterFirstBarrier ==
    LET first == <<Cmd("barrier", back_buffer_index, "PRESENT", "RENDER_TARGET", 0, 0)>>
    IN  /\ (pc \in {"idle", "wait", "begin_frame", "record", "dropped"} => ui_calls = 0)
        /\ (pc \in {"tm_free", "tm_begin", "tm_reset", "tm_submit", "tm_final",
                     "app_draw", "submit", "panicked"} => ui_calls = 1)
        /\ (pc \in {"record", "tm_free", "tm_begin", "tm_reset", "tm_submit",
                     "tm_final", "app_draw"} => cmd_list[Slot].cmds = first)

\* C17 witness: a frame of slot 1 is recorded in full, with one overlay draw,
\* after one record_ui call.
C17_Witness ==
    /\ pc = "submit"
    /\ Slot = 1
    /\ ui_calls = 1
    /\ Len(cmd_list[Slot].cmds) = 5

\* C18 as stated, for the texture delta step: a set() that does not go on to
\* record its upload has failed, and draw then returns an error.
C18_FailedStepReturnsErr ==
    [][pc = "tm_begin" /\ pc' # "tm_reset" => pc' = "error"]_vars

\* C18, the part the code keeps: a step into the error return leaves the ring index where it was and
\* requests no redraw (so nothing is retried), and when it is the wait (or the
\* SetEventOnCompletion before it) that fails, the slot's fence, allocator
\* and list and the queue are untouched.
C18_ErrorReturnKeepsRing ==
    [][pc # "error" /\ pc' = "error" =>
          /\ current_frame' = current_frame
          /\ ~redraw_requested'
          /\ (pc \in {"idle", "wait"} =>
                 fence' = fence /\ cmd_list' = cmd_list /\ queue' = queue)]_vars

\* C18 witness: in a ring of 2, Present has failed for a frame of slot 1 whose
\* list and fence signal are queued; the ring index is still 1 and no redraw
\* is requested.
C18_Witness ==
    /\ pc = "error"
    /\ frame_count = 2
    /\ current_frame = 1
    /\ ~redraw_requested
    /\ queue # <<>>
    /\ queue[Len(queue)].type = "signal"
    /\ queue[Len(queue)].who = 1

\* C19: once draw has returned an error the only step left is the panic of
\* the unwrap, and after a panic there is none: no draw is started and no
\* close request or other window event is handled.
C19_ErrorIsFatal ==
    [][(pc = "error" \/ pc = "panicked") =>
          (/\ pc = "error"
           /\ pc' = "panicked"
           /\ UNCHANGED <<ringVars, cmd_list, fence, event, armed, free_list, swapVars,
                          eguiVars, tmVars, uiVars, queue, frameVars>>)]_vars

\* C19 witness: the process has panicked on a draw that failed before the UI
\* was recorded, with a redraw never requested again.
C19_Witness ==
    /\ pc = "panicked"
    /\ ui_calls = 0
    /\ ~redraw_requested

\* C20: the initializer is called for 0, 1, 2, .. in order and never after a
\* failed call; an Err result is that of the first failing index and comes
\* with no slots; an Ok result has frame_count slots in index order, none of
\* them from a failing index, and the ring starts at slot 0.
C20_NoPartialPool ==
    /\ \A k \in 1..Len(pool.calls) : pool.calls[k] = k - 1
    /\ \A k \in 1..(Len(pool.calls) - 1) : pool.calls[k] \notin pool.fails
    /\ Len(pool.calls) <= pool.n
    /\ pool.result = "err" =>
          /\ pool.calls # <<>>
          /\ pool.calls[Len(pool.calls)] \in pool.fails
          /\ pool.slots = <<>>
    /\ pool.result = "running" =>
          /\ pool.slots = pool.calls
    /\ pool.result = "ok" =>
          /\ Len(pool.slots) = pool.n
          /\ \A k \in 1..pool.n : pool.slots[k] = k - 1 /\ (k - 1) \notin pool.fails
          /\ frame_count = pool.n
          /\ current_frame = 0

\* C20 witness: a ring of 4 whose initializer fails at indices 2 and 3 has
\* returned the error after exactly three calls.
C20_Witness ==
    /\ pool.n = 4
    /\ pool.fails = {2, 3}
    /\ pool.result = "err"
    /\ pool.calls = <<0, 1, 2>>

\* C21: with 3 back buffers and a recording ring of 1 slot, the k-th of 5
\* frames without UI geometry is recorded for back buffer 0,1,2,0,1, every
\* finished draw has made one Present call, and the ring index is 0 all along.
C21_FiveFrames ==
    /\ frame_count = 1
    /\ current_frame = 0
    /\ advances <= ScenarioFrames
    /\ back_buffer_index = advances % BufferCount
    /\ advances < 5 => back_buffer_index = <<0, 1, 2, 0, 1>>[advances + 1]
    /\ pc \notin {"error", "panicked"}
    /\ LET IsPresent(item) == item.type = "present"
           P == SelectSeq(queue, IsPresent)
       IN  /\ Len(P) <= advances
           /\ \A j \in 1..Len(P) : P[j].who = (advances - Len(P) + j - 1) % BufferCount

\* C21 witness: the fifth frame has been presented for back buffer 1 and the
\* GPU has caught up.
C21_Witness ==
    /\ advances = 5
    /\ pc = "idle"
    /\ queue = <<>>
    /\ back_buffer_index = 2
    /\ current_frame = 0

\* C22: no step changes the back buffers' size, the viewport or the scissor
\* computed at construction, and a step that handles a window event (the only
\* one that changes the window) changes no frame-slot state, no swapchain
\* state, no queue content and not the ring index.
C22_EventChangesNothing ==
    [][/\ window'.buffers = window.buffers
       /\ window'.viewport = window.viewport
       /\ window'.scissor = window.scissor
       /\ (window' # window =>
              UNCHANGED <<ringVars, drawVars, swapVars, eguiVars, tmVars, queue>>)]_vars

\* C22 witness: after a frame was drawn the window has been resized to 2x2
\* while a frame is in flight, and back buffers, viewport and scissor still
\* are the 1x1 of construction.
C22_Witness ==
    /\ window.inner_size = <<2, 2>>
    /\ window.buffers = <<1, 1>>
    /\ window.viewport = <<1, 1>>
    /\ window.scissor = <<1, 1>>
    /\ advances >= 1
    /\ queue # <<>>

\* C23: in a recorded frame, the draw of live slot i binds the descriptor heap
\* of the texture named by the frame's primitive at index i.
C23_SlotDrawsItsPrimitive ==
    pc = "submit" =>
        LET cmds == cmd_list[Slot].cmds
        IN  \A j \in 1..Len(cmds) :
                (/\ cmds[j].op = "draw"
                 /\ prims[cmds[j].idx + 1].kind = "Mesh"
                 /\ prims[cmds[j].idx + 1].texture_id.kind = "Managed")
                    => /\ cmds[j].key = prims[cmds[j].idx + 1].texture_id.id
                       /\ cmds[j].res = get_descriptor_heap(
                                            textures, prims[cmds[j].idx + 1].texture_id.id)

\* C24: after a successful record every index below draw_count denotes an
\* allocated mesh slot.
C24_LiveSlotsAllocated ==
    pc \in {"tm_free", "tm_begin", "tm_reset", "tm_submit", "tm_final", "app_draw"}
        => draw_count <= Len(meshes)

\* C25: every upload in the queue is transition -> COPY_DEST, copy,
\* COPY_DEST -> GENERIC_READ on one texture; when the GPU comes to execute it,
\* the StateBefore of its first transition is the state the texture is in; and
\* a cached texture is in COMMON exactly while its first upload has not been
\* executed, in GENERIC_READ otherwise.
C25_StateBeforeIsActual ==
    LET Upload(i) == queue[i].type = "tm_exec"
        Pending(r) == \E i \in 1..Len(queue) : Upload(i) /\ queue[i].cmds[1].res = r
        ids == ManagedOf(textures_delta.set)
        BeingSet(r) == /\ pc \in {"tm_reset", "tm_submit"}
                       /\ textures[ids[tm_i].id] = r
    IN  /\ \A i \in 1..Len(queue) :
               Upload(i) =>
                  LET c == queue[i].cmds
                  IN  /\ Len(c) = 3
                      /\ c[1].op = "tbarrier" /\ c[1].after = "COPY_DEST"
                      /\ c[2].op = "copy" /\ c[2].res = c[1].res
                      /\ c[3].op = "tbarrier" /\ c[3].res = c[1].res
                      /\ c[3].before = "COPY_DEST" /\ c[3].after = "GENERIC_READ"
        /\ (queue # <<>> /\ Upload(1) /\ tex_state[queue[1].cmds[1].res] # "RELEASED") =>
               queue[1].cmds[1].before = tex_state[queue[1].cmds[1].res]
        /\ \A t \in DOMAIN textures :
               textures[t] # 0 =>
                  /\ tex_state[textures[t]] \in {"COMMON", "GENERIC_READ"}
                  /\ tex_state[textures[t]] = "COMMON" =>
                         Pending(textures[t]) \/ BeingSet(textures[t])

\* C25 witness: texture 0 was cached, freed and set again; the upload into its
\* second resource is the next thing the GPU executes, with StateBefore COMMON,
\* the state the new resource is in.
C25_Witness ==
    /\ queue # <<>>
    /\ queue[1].type = "tm_exec"
    /\ textures[0] = 2
    /\ tex_state[1] = "RELEASED"
    /\ queue[1].cmds[1].res = 2
    /\ queue[1].cmds[1].before = "COMMON"
    /\ tex_state[2] = "COMMON"

\* C26: the resource the buffer holds has room for the reported length, and an
\* upload that got as far as writing wrote at most as many elements as the
\* resource held after the grow decision can hold.
C26_LenWithinCapacity ==
    /\ len(vcb) <= Capacity(vcb, res_cap)
    /\ vcb_initial <= Capacity(vcb, res_cap)
    /\ (vcb_call.op = "upload" /\ vcb_call.result = "Ok") =>
           vcb_call.len <= Capacity(vcb, res_cap)

\* C26 witness: after new(1) an upload of 3 elements replaced the resource,
\* and an upload of 1 element, decided against the stale max_size of 1, was
\* written into the 3-element resource that was kept.
C26_Witness ==
    /\ vcb_initial = 1
    /\ vcb_uploads = 2
    /\ vcb_reallocs = 1
    /\ vcb_call.result = "Ok"
    /\ vcb_call.len = 1
    /\ vcb_call.deleted = 0
    /\ Capacity(vcb, res_cap) = 3

\* C30: an upload whose allocation of the larger resource fails leaves the
\* buffer as it was: the same resource, max_size and current_len, and no
\* resource created.
C30_AllocErrChangesNothing ==
    [][(vcb_uploads' # vcb_uploads /\ vcb_call'.result = "AllocErr") =>
          /\ vcb' = vcb
          /\ res_cap' = res_cap
          /\ len(vcb') = len(vcb)
          /\ Capacity(vcb', res_cap') = vcb_call'.cap_before]_vars

\* C30 witness: after new(0) and an upload of 2 elements, an upload of 3
\* elements has failed to allocate; the buffer still reports 2 elements in
\* the 2-element resource.
C30_Witness ==
    /\ vcb_initial = 0
    /\ vcb_uploads = 2
    /\ vcb_call.result = "AllocErr"
    /\ vcb_call.len = 3
    /\ len(vcb) = 2
    /\ Capacity(vcb, res_cap) = 2
    /\ vcb.resource = vcb_call.resource_before

\* C27: under fair GPU execution the completion wait at the start of a draw
\* eventually returns.
C27_WaitEventuallyReturns == (pc = "wait") ~> (pc = "begin_frame")

\* C28: under fair GPU execution a Wait(fence, 1) of the texture manager at
\* the head of the queue is eventually passed, and every frame's command
\* list that was submitted is eventually executed.
C28_QueueWaitEventuallyPasses ==
    /\ (queue # <<>> /\ Head(queue).type = "tm_wait")
           ~> (queue = <<>> \/ Head(queue).type # "tm_wait")
    /\ InFlight("exec", 0) ~> ~InFlight("exec", 0)

\* C29: the creator is invoked at most once and the running state is set at
\* most once (and only from a creator call); draw and event have been called
\* only when the running state exists, every other redraw or input callback
\* was ignored; and after a failed initialization the event loop has been
\* asked to exit.
C29_InitializedOnce ==
    /\ runner.creator_calls <= 1
    /\ runner.sets <= runner.creator_calls
    /\ runner.sets = (IF runner.running_state THEN 1 ELSE 0)
    /\ (runner.draws + runner.events > 0 => runner.running_state)
    /\ (~runner.running_state =>
           runner.draws = 0 /\ runner.events = 0)
    /\ (runner.failed > 0 => runner.exit)
    /\ (runner.app_creator => runner.creator_calls = 0)

\* C29 witness: RunningState::new failed after the creator had run, a second
\* resumed failed on the taken creator, redraws were ignored, and the exit is
\* pending: the creator ran once and there is no running state.
C29_Witness ==
    /\ runner.failed = 2
    /\ runner.creator_calls = 1
    /\ ~runner.app_creator
    /\ ~runner.running_state
    /\ runner.ignored >= 1
    /\ runner.exit

\* C4: after k calls of increment_frame on a ring of N >= 1 slots the current
\* index is (0 + k) mod N, it is always below N, and after exactly N calls
\* get_current is the original slot 0 again.
C4_RingIndexIsAdvancesModN ==
    /\ frame_count >= 1
    /\ current_frame = (0 + advances) % frame_count
    /\ get_current < frame_count
    /\ (advances = frame_count => get_current = 0)

\* C4 witness: a ring of 3 slots has been advanced exactly 3 times (one wrap).
C4_Witness ==
    /\ frame_count = 3
    /\ advances = frame_count
    /\ get_current = 0

\* C5: after a successful upload(data) len() is data.len() and is_empty()
\* holds exactly when data is empty, whatever the initial size and the
\* earlier uploads were; a buffer that was only constructed reports length 0.
C5_LenIsDataLen ==
    /\ (vcb_call.result = "Ok" =>
            /\ len(vcb) = vcb_call.len
            /\ (is_empty(vcb) <=> vcb_call.len = 0))
    /\ (vcb_uploads = 0 => len(vcb) = 0 /\ is_empty(vcb))

\* C5 witness: a successful upload shorter than an earlier successful one, on
\* a buffer constructed with a non-zero initial size.
C5_Witness ==
    /\ vcb_call.result = "Ok"
    /\ vcb_initial > 0
    /\ vcb_call.len < vcb_call.max_ok_before
    /\ len(vcb) = vcb_call.len

\* C6: a successful upload never leaves the buffer holding a resource of
\* smaller element capacity than the one it held before the call.
C6_CapacityNeverDecreases ==
    vcb_call.result = "Ok" => Capacity(vcb, res_cap) >= vcb_call.cap_before

\* C7: once an upload of n elements has succeeded, a later successful upload
\* of at most n elements keeps the held resource and returns None.
C7_NoAllocationBelowEarlierUpload ==
    (vcb_call.result = "Ok" /\ vcb_uploads >= 2
        /\ vcb_call.len <= vcb_call.max_ok_before) =>
            /\ vcb_call.deleted = 0
            /\ vcb.resource = vcb_call.resource_before

\* C8: on a buffer constructed with initial_size = k, the first upload, when
\* of exactly k elements, keeps resource and capacity and returns None, and
\* when of k + 1 elements, replaces the resource exactly once and returns the
\* previous resource.
C8_ExactFitThenOneReallocation ==
    (vcb_uploads = 1 /\ vcb_call.result = "Ok") =>
        /\ (vcb_call.len = vcb_initial =>
                /\ vcb_call.deleted = 0
                /\ vcb.resource = vcb_call.resource_before
                /\ Capacity(vcb, res_cap) = vcb_call.cap_before
                /\ vcb_reallocs = 0)
        /\ (vcb_call.len = vcb_initial + 1 =>
                /\ vcb_call.deleted = vcb_call.resource_before
                /\ vcb_call.deleted # 0
                /\ vcb.resource # vcb_call.resource_before
                /\ Capacity(vcb, res_cap) = vcb_initial + 1
                /\ vcb_reallocs = 1)

\* C8 witness: the first upload had k + 1 elements, with k > 0, and reallocated.
C8_Witness ==
    /\ vcb_uploads = 1
    /\ vcb_call.result = "Ok"
    /\ vcb_initial > 0
    /\ vcb_call.len = vcb_initial + 1
    /\ vcb_reallocs = 1

\* C9: when the overlay is about to record its draws, the texture key of
\* every live mesh slot (index < draw_count) has an entry in the texture
\* cache, so get_descriptor_heap(..).unwrap() does not fail.
C9_LiveKeysAreCached ==
    pc = "app_draw" =>
        \A i \in 1..draw_count :
            i <= Len(meshes) => get_descriptor_heap(textures, meshes[i].texture) # 0

\* C10: apply_texture_delta leaves the recorded delta alone while it frees and
\* upserts, returns (into the slot's free_list) exactly the delta's free list,
\* and leaves the stored delta with an empty free list and the same set list.
C10_ReturnsFreeSetOnce ==
    [][/\ (pc \in {"tm_free", "tm_begin", "tm_reset", "tm_submit"} =>
              textures_delta' = textures_delta)
       /\ (pc = "tm_final" /\ pc' = "app_draw" =>
              /\ free_list'[current_frame] = textures_delta.free
              /\ textures_delta'.free = <<>>
              /\ textures_delta'.set = textures_delta.set)]_vars

\* C10 witness: apply_texture_delta has returned a non-empty free list after
\* upserting a texture.
C10_Witness ==
    /\ pc = "app_draw"
    /\ free_list[Slot] # <<>>
    /\ textures_delta.set # <<>>
    /\ textures_delta.free = <<>>

====
